---- MODULE Spec2Model ----
(***************************************************************************)
(* Model of llm_cfg/incremental_parser.py: the IncrementalParser session   *)
(* and its entry point get_acceptable_next_terminals ("advance").          *)
(*                                                                         *)
(* Strings are sequences of one-character strings.  Character and token    *)
(* positions are 0-based as in the source; TLA+ sequences are 1-based, so  *)
(* the character at position p of text is text[p + 1].                     *)
(*                                                                         *)
(* The grammar is the example grammar of the specification:                *)
(*     start: NAME ("+" NAME)*      NAME: /[a-z]+/      %ignore " "        *)
(* The lexer and the LALR interactive parser belong to the parser library  *)
(* (larkm); they are modelled from the specification and the library's     *)
(* documented behaviour.                                                   *)
(***************************************************************************)
EXTENDS Integers, Sequences, FiniteSets, TLC

\* Longest buffer handed to the parser, and number of calls on one session.
MaxLen == 2
MaxCalls == 2

\* "a": a NAME letter, "+": the PLUS terminal, " ": ignored whitespace,
\* "1": a character no terminal matches.
Chars == {"a", "+", " ", "1"}
Buffers == UNION {[1..n -> Chars] : n \in 0..MaxLen}

\* Python's None for the Optional[set] fields.
None == {"None"}

Min(a, b) == IF a < b THEN a ELSE b

-----------------------------------------------------------------------------
(* The lexer: BasicLexer.next_token over the example grammar.              *)

\* Token.__eq__ / __ne__: type and value; offsets do not take part.
TokenEq(t1, t2) == t1.type = t2.type /\ t1.value = t2.value

\* Greedy match of NAME: /[a-z]+/ from position p; the end position.
RECURSIVE NameEnd(_, _)
NameEnd(text, p) ==
    IF p < Len(text) /\ text[p + 1] = "a" THEN NameEnd(text, p + 1) ELSE p

\* One call of next_token with line_ctr.char_pos = pos: ignored characters
\* are consumed, then a token is returned, or UnexpectedCharacters is raised
\* at the offending character, or EOFError at the end of the text.
RECURSIVE next_token(_, _)
next_token(text, pos) ==
    IF ~(pos < Len(text)) THEN [kind |-> "EOFError", pos |-> pos]
    ELSE LET c == text[pos + 1] IN
         IF c = " " THEN next_token(text, pos + 1)
         ELSE IF c = "+"
              THEN [kind |-> "Token", pos |-> pos + 1,
                    token |-> [type |-> "PLUS", value |-> <<"+">>,
                               start_pos |-> pos]]
         ELSE IF c = "a"
              THEN [kind |-> "Token", pos |-> NameEnd(text, pos),
                    token |-> [type |-> "NAME",
                               value |-> SubSeq(text, pos + 1, NameEnd(text, pos)),
                               start_pos |-> pos]]
         ELSE [kind |-> "UnexpectedCharacters", pos |-> pos]

\* The while loop of _lex_code; both exceptions end it and are swallowed.
RECURSIVE lex_loop(_, _, _)
lex_loop(text, pos, lexer_tokens) ==
    IF ~(pos < Len(text)) THEN [lexer_tokens |-> lexer_tokens, lexer_pos |-> pos]
    ELSE LET r == next_token(text, pos) IN
         IF r.kind = "Token"
         THEN lex_loop(text, r.pos, Append(lexer_tokens, r.token))
         ELSE [lexer_tokens |-> lexer_tokens, lexer_pos |-> r.pos]

\* _lex_code: the token list, and self.lexer_pos as line 95 leaves it.
_lex_code(code) == lex_loop(code, 0, <<>>)

-----------------------------------------------------------------------------
(* The LALR(1) interactive parser of the example grammar.                  *)
(*   r0: start -> NAME            r1: start -> NAME star                   *)
(*   r2: star  -> PLUS NAME       r3: star  -> star PLUS NAME              *)

Terminals == {"NAME", "PLUS", "$END"}

Shift(n) == [act |-> "Shift", arg |-> n, lhs |-> "", size |-> 0]
Reduce(lhs, size) == [act |-> "Reduce", arg |-> 0, lhs |-> lhs, size |-> size]

ParseTable ==
    (<<0, "NAME">> :> Shift(1)) @@
    (<<1, "PLUS">> :> Shift(2)) @@ (<<1, "$END">> :> Reduce("start", 1)) @@
    (<<2, "NAME">> :> Shift(4)) @@
    (<<3, "PLUS">> :> Shift(5)) @@ (<<3, "$END">> :> Reduce("start", 2)) @@
    (<<4, "PLUS">> :> Reduce("star", 2)) @@ (<<4, "$END">> :> Reduce("star", 2)) @@
    (<<5, "NAME">> :> Shift(6)) @@
    (<<6, "PLUS">> :> Reduce("star", 3)) @@ (<<6, "$END">> :> Reduce("star", 3))

Goto == (<<0, "start">> :> 7) @@ (<<1, "star">> :> 3)

EndState == 7

\* parse_interactive(''): the parser state before any token.
InitialParserState == <<0>>

\* ParserState.feed_token: reduce while the table says so, then shift.
\* ok = FALSE stands for UnexpectedToken.
RECURSIVE feed_token(_, _)
feed_token(state_stack, type) ==
    LET state == state_stack[Len(state_stack)] IN
    IF <<state, type>> \notin DOMAIN ParseTable
    THEN [ok |-> FALSE, state_stack |-> state_stack]
    ELSE LET a == ParseTable[<<state, type>>] IN
         IF a.act = "Shift"
         THEN [ok |-> TRUE, state_stack |-> Append(state_stack, a.arg)]
         ELSE LET popped == SubSeq(state_stack, 1, Len(state_stack) - a.size)
                  pushed == Append(popped, Goto[<<popped[Len(popped)], a.lhs>>])
              IN IF type = "$END" /\ pushed[Len(pushed)] = EndState
                 THEN [ok |-> TRUE, state_stack |-> pushed]
                 ELSE feed_token(pushed, type)

\* InteractiveParser.choices: the terminals with an entry for the top state.
choices(state_stack) ==
    {t \in Terminals : <<state_stack[Len(state_stack)], t>> \in DOMAIN ParseTable}

\* InteractiveParser.accepts: the choices a copy of the parser consumes.
accepts(state_stack) ==
    {t \in choices(state_stack) : feed_token(state_stack, t).ok}

-----------------------------------------------------------------------------
(* The session: the fields of IncrementalParser set by __init__.           *)

VARIABLES
    cur_ac_terminals,         \* Optional[set]
    next_ac_terminals,        \* Optional[set]
    cur_pos,                  \* cursor in the lexer token list
    lexer_pos,                \* lexer position in the code
    dedent_queue,
    interactive,              \* self.interactive.parser_state
    parser_token_seq,         \* every token handed to feed_token, in order
    prev_lexer_tokens,
    cur_pos_to_parser_state,  \* token index -> stored tuple
    heap,                     \* which object each field and stored tuple holds
    calls,                    \* the buffers passed so far, oldest first
    result,                   \* what the last call returned or raised
    trace                     \* what the last call did, step by step

vars == <<cur_ac_terminals, next_ac_terminals, cur_pos, lexer_pos, dedent_queue,
          interactive, parser_token_seq, prev_lexer_tokens,
          cur_pos_to_parser_state, heap, calls, result, trace>>

\* The record of one call's steps: the snapshot index restored (-1: none),
\* the live state when the feeding loop is entered, the feeds attempted (each
\* with the live sets and the stored tuple at its index from just before it,
\* and the parser state just after it) and the number of calls of _accepts.
NoTrace ==
    [restored |-> -1,
     loop_entry |-> [cur_pos |-> 0, interactive |-> InitialParserState,
                     dedent_queue |-> <<>>],
     fed |-> <<>>,
     accepts_calls |-> 0]

\* Object identities. Python's None is the one object NoneId; every copy,
\* deepcopy of a set or list, and every set accepts() builds is a new object,
\* numbered from heap.fresh on. deepcopy(None) is None.
NoneId == 0

InitHeap ==
    [cur_ac_terminals |-> NoneId,
     next_ac_terminals |-> NoneId,
     interactive |-> 1,
     dedent_queue |-> 2,
     stored |-> <<>>,
     returned |-> {},
     fresh |-> 3]

\* The identity of copy.deepcopy(x) when n is the next unused one.
deepcopy_id(x, n) == IF x = None THEN NoneId ELSE n

\* __init__
InitSession ==
    [cur_ac_terminals |-> None,
     next_ac_terminals |-> None,
     cur_pos |-> 0,
     lexer_pos |-> 0,
     dedent_queue |-> <<>>,
     interactive |-> InitialParserState,
     parser_token_seq |-> <<>>,
     prev_lexer_tokens |-> <<>>,
     cur_pos_to_parser_state |-> <<>>,
     heap |-> InitHeap,
     trace |-> NoTrace]

\* _accepts: interactive_parser.accepts()
_accepts(parser_state) == accepts(parser_state)

\* _store_parser_state with line 50 reading self.cur_ac_terminals: the tuple
\* and the live cur_ac_terminals keep the old cur instead of the old next.
_store_parser_state_cur(self, pos, parser_state, accepted, indent_levels) ==
    LET cur == self.cur_ac_terminals
        nxt == accepted
        entry == [parser_state |-> parser_state,
                  cur_ac_terminals |-> cur,
                  next_ac_terminals |-> nxt,
                  indent_levels |-> indent_levels,
                  dedent_queue |-> self.dedent_queue]
        old == self.cur_pos_to_parser_state
        h == self.heap
        ids == [parser_state |-> h.fresh,
                cur_ac_terminals |-> h.cur_ac_terminals,
                next_ac_terminals |-> h.fresh + 1,
                dedent_queue |-> h.fresh + 2]
    IN [self EXCEPT
          !.cur_pos_to_parser_state =
              [i \in (DOMAIN old) \cup {pos} |-> IF i = pos THEN entry ELSE old[i]],
          !.cur_ac_terminals = cur,
          !.next_ac_terminals = nxt,
          !.heap = [h EXCEPT
              !.stored = [i \in (DOMAIN old) \cup {pos} |->
                             IF i = pos THEN ids ELSE h.stored[i]],
              !.cur_ac_terminals = deepcopy_id(cur, h.fresh + 3),
              !.next_ac_terminals = deepcopy_id(nxt, h.fresh + 4),
              !.fresh = h.fresh + 5]]

\* _store_parser_state with line 54 storing self.dedent_queue itself, with no
\* deepcopy: the tuple shares the live dedent queue object.
_store_parser_state_shared(self, pos, parser_state, accepted, indent_levels) ==
    LET cur == self.next_ac_terminals
        nxt == accepted
        entry == [parser_state |-> parser_state,
                  cur_ac_terminals |-> cur,
                  next_ac_terminals |-> nxt,
                  indent_levels |-> indent_levels,
                  dedent_queue |-> self.dedent_queue]
        old == self.cur_pos_to_parser_state
        h == self.heap
        ids == [parser_state |-> h.fresh,
                cur_ac_terminals |-> h.next_ac_terminals,
                next_ac_terminals |-> h.fresh + 1,
                dedent_queue |-> h.dedent_queue]
    IN [self EXCEPT
          !.cur_pos_to_parser_state =
              [i \in (DOMAIN old) \cup {pos} |-> IF i = pos THEN entry ELSE old[i]],
          !.cur_ac_terminals = cur,
          !.next_ac_terminals = nxt,
          !.heap = [h EXCEPT
              !.stored = [i \in (DOMAIN old) \cup {pos} |->
                             IF i = pos THEN ids ELSE h.stored[i]],
              !.cur_ac_terminals = deepcopy_id(cur, h.fresh + 3),
              !.next_ac_terminals = deepcopy_id(nxt, h.fresh + 4),
              !.fresh = h.fresh + 5]]

\* _store_parser_state: the tuple stored at pos and the live sets replaced.
\* The tuple holds the arguments themselves (parser_state is the copy made
\* at line 144, accepted the set accepts() built), the object that is the
\* live next_ac_terminals, and a deepcopy of the dedent queue; the live sets
\* become deepcopies.
_store_parser_state(self, pos, parser_state, accepted, indent_levels) ==
    LET cur == self.next_ac_terminals
        nxt == accepted
        entry == [parser_state |-> parser_state,
                  cur_ac_terminals |-> cur,
                  next_ac_terminals |-> nxt,
                  indent_levels |-> indent_levels,
                  dedent_queue |-> self.dedent_queue]
        old == self.cur_pos_to_parser_state
        h == self.heap
        ids == [parser_state |-> h.fresh,
                cur_ac_terminals |-> h.next_ac_terminals,
                next_ac_terminals |-> h.fresh + 1,
                dedent_queue |-> h.fresh + 2]
    IN [self EXCEPT
          !.cur_pos_to_parser_state =
              [i \in (DOMAIN old) \cup {pos} |-> IF i = pos THEN entry ELSE old[i]],
          !.cur_ac_terminals = cur,
          !.next_ac_terminals = nxt,
          !.heap = [h EXCEPT
              !.stored = [i \in (DOMAIN old) \cup {pos} |->
                             IF i = pos THEN ids ELSE h.stored[i]],
              !.cur_ac_terminals = deepcopy_id(cur, h.fresh + 3),
              !.next_ac_terminals = deepcopy_id(nxt, h.fresh + 4),
              !.fresh = h.fresh + 5]]

\* _restore_parser_state recomputing next_ac_terminals with _accepts instead
\* of copying the stored set.
_restore_parser_state_recompute(self, pos) ==
    LET entry == self.cur_pos_to_parser_state[pos]
        h == self.heap
    IN
    [self EXCEPT
       !.interactive = entry.parser_state,
       !.dedent_queue = entry.dedent_queue,
       !.cur_ac_terminals = entry.cur_ac_terminals,
       !.next_ac_terminals = _accepts(entry.parser_state),
       !.trace.accepts_calls = @ + 1,
       !.heap = [h EXCEPT
           !.interactive = h.fresh,
           !.dedent_queue = h.fresh + 1,
           !.cur_ac_terminals = deepcopy_id(entry.cur_ac_terminals, h.fresh + 2),
           !.next_ac_terminals = h.fresh + 3,
           !.fresh = h.fresh + 4]]

\* _restore_parser_state: indent_levels is stored as None by every caller of
\* _store_parser_state in this class, so line 71 is not taken.
_restore_parser_state(self, pos) ==
    LET entry == self.cur_pos_to_parser_state[pos]
        h == self.heap
    IN
    [self EXCEPT
       !.interactive = entry.parser_state,
       !.dedent_queue = entry.dedent_queue,
       !.cur_ac_terminals = entry.cur_ac_terminals,
       !.next_ac_terminals = entry.next_ac_terminals,
       !.heap = [h EXCEPT
           !.interactive = h.fresh,
           !.dedent_queue = h.fresh + 1,
           !.cur_ac_terminals = deepcopy_id(entry.cur_ac_terminals, h.fresh + 2),
           !.next_ac_terminals = deepcopy_id(entry.next_ac_terminals, h.fresh + 3),
           !.fresh = h.fresh + 4]]

\* The for loop of _restore_recent_parser_state from index i on, with
\* max_matching_index = m so far.
RECURSIVE max_matching_index(_, _, _, _)
max_matching_index(self, lexer_tokens, i, m) ==
    IF ~(i < Min(Len(self.prev_lexer_tokens), Len(lexer_tokens))) THEN m
    ELSE IF ~TokenEq(self.prev_lexer_tokens[i + 1], lexer_tokens[i + 1]) THEN m
    ELSE max_matching_index(self, lexer_tokens, i + 1,
             IF i \in DOMAIN self.cur_pos_to_parser_state THEN i ELSE m)

\* The for loop with line 108 keeping the first stored matching index
\* instead of the last.
RECURSIVE first_matching_index(_, _, _, _)
first_matching_index(self, lexer_tokens, i, m) ==
    IF ~(i < Min(Len(self.prev_lexer_tokens), Len(lexer_tokens))) THEN m
    ELSE IF ~TokenEq(self.prev_lexer_tokens[i + 1], lexer_tokens[i + 1]) THEN m
    ELSE first_matching_index(self, lexer_tokens, i + 1,
             IF i \in DOMAIN self.cur_pos_to_parser_state /\ m = -1 THEN i ELSE m)

\* _restore_recent_parser_state restoring the first stored matching index.
_restore_recent_parser_state_first(self, lexer_tokens) ==
    LET m == first_matching_index(self, lexer_tokens, 0, -1) IN
    IF m # -1
    THEN [_restore_parser_state([self EXCEPT !.cur_pos = m + 1], m)
             EXCEPT !.trace.restored = m]
    ELSE self

\* _restore_recent_parser_state: nothing is done when no index matches.
_restore_recent_parser_state(self, lexer_tokens) ==
    LET m == max_matching_index(self, lexer_tokens, 0, -1) IN
    IF m # -1
    THEN [_restore_parser_state([self EXCEPT !.cur_pos = m + 1], m)
             EXCEPT !.trace.restored = m]
    ELSE self

\* The feeding loop of get_acceptable_next_terminals (lines 134-148):
\* UnexpectedToken ends it after cur_pos and parser_token_seq were advanced.
RECURSIVE feed_loop(_, _)
feed_loop(self, lexer_tokens) ==
    IF ~(self.cur_pos < Len(lexer_tokens)) THEN self
    ELSE LET token == lexer_tokens[self.cur_pos + 1]
             s1 == [self EXCEPT !.cur_pos = @ + 1,
                                !.parser_token_seq = Append(@, token)]
             r == feed_token(s1.interactive, token.type)
             s2 == [s1 EXCEPT !.interactive = r.state_stack,
                              !.trace.fed = Append(@,
                                  [index |-> self.cur_pos,
                                   ok |-> r.ok,
                                   cur_before |-> self.cur_ac_terminals,
                                   next_before |-> self.next_ac_terminals,
                                   entry_before |->
                                       IF self.cur_pos \in DOMAIN self.cur_pos_to_parser_state
                                       THEN <<self.cur_pos_to_parser_state[self.cur_pos]>>
                                       ELSE <<>>,
                                   state_after |-> r.state_stack])]
         IN IF ~r.ok THEN s2
            ELSE feed_loop(
                   _store_parser_state(
                       [s2 EXCEPT !.trace.accepts_calls = @ + 1],
                       s2.cur_pos - 1, s2.interactive, _accepts(s2.interactive),
                       None),
                   lexer_tokens)

\* str.lstrip(' ')
RECURSIVE lstrip(_)
lstrip(str) ==
    IF str # <<>> /\ Head(str) = " " THEN lstrip(Tail(str)) ELSE str

\* _get_remainder with line 159 comparing by <= instead of <: a buffer the
\* lexer consumed whole is classified by its (empty) suffix.
_get_remainder_le(self, code) ==
    LET current_term_str == lstrip(SubSeq(code, self.lexer_pos + 1, Len(code))) IN
    [raised |-> "",
     remainder_state |-> IF current_term_str = <<>> THEN "COMPLETE"
                         ELSE "INCOMPLETE",
     current_term_str |-> current_term_str]

\* _get_remainder: parser_token_seq[-1] raises IndexError on an empty list.
_get_remainder(self, code) ==
    IF self.lexer_pos < Len(code)
    THEN LET current_term_str == lstrip(SubSeq(code, self.lexer_pos + 1, Len(code))) IN
         [raised |-> "",
          remainder_state |-> IF current_term_str = <<>> THEN "COMPLETE"
                              ELSE "INCOMPLETE",
          current_term_str |-> current_term_str]
    ELSE IF self.parser_token_seq = <<>>
         THEN [raised |-> "IndexError", remainder_state |-> "",
               current_term_str |-> <<>>]
         ELSE [raised |-> "",
               remainder_state |-> "MAYBE_COMPLETE",
               current_term_str |->
                   self.parser_token_seq[Len(self.parser_token_seq)].value]

\* The session as get_acceptable_next_terminals leaves it, before line 154.
parsed(self, partial_code) ==
    LET lexed == _lex_code(partial_code)
        s1 == [self EXCEPT !.lexer_pos = lexed.lexer_pos, !.trace = NoTrace]
        s2 == _restore_recent_parser_state(s1, lexed.lexer_tokens)
        s3 == [s2 EXCEPT !.prev_lexer_tokens = lexed.lexer_tokens,
                         !.trace.loop_entry =
                             [cur_pos |-> s2.cur_pos,
                              interactive |-> s2.interactive,
                              dedent_queue |-> s2.dedent_queue]]
    IN feed_loop(s3, lexed.lexer_tokens)

\* What get_acceptable_next_terminals returns or raises on session self.
ParseResult(self, partial_code) ==
    LET s == parsed(self, partial_code)
        rem == _get_remainder(s, partial_code)
    IN IF rem.raised # ""
       THEN [kind |-> rem.raised]
       ELSE [kind |-> "ParseResult",
             cur_ac_terminals |-> s.cur_ac_terminals,
             next_ac_terminals |-> s.next_ac_terminals,
             remainder_string |-> rem.current_term_str,
             remainder_state |-> rem.remainder_state]

\* The live session as one record.
Self ==
    [cur_ac_terminals |-> cur_ac_terminals,
     next_ac_terminals |-> next_ac_terminals,
     cur_pos |-> cur_pos,
     lexer_pos |-> lexer_pos,
     dedent_queue |-> dedent_queue,
     interactive |-> interactive,
     parser_token_seq |-> parser_token_seq,
     prev_lexer_tokens |-> prev_lexer_tokens,
     cur_pos_to_parser_state |-> cur_pos_to_parser_state,
     heap |-> heap,
     trace |-> trace]

Init ==
    /\ cur_ac_terminals = InitSession.cur_ac_terminals
    /\ next_ac_terminals = InitSession.next_ac_terminals
    /\ cur_pos = InitSession.cur_pos
    /\ lexer_pos = InitSession.lexer_pos
    /\ dedent_queue = InitSession.dedent_queue
    /\ interactive = InitSession.interactive
    /\ parser_token_seq = InitSession.parser_token_seq
    /\ prev_lexer_tokens = InitSession.prev_lexer_tokens
    /\ cur_pos_to_parser_state = InitSession.cur_pos_to_parser_state
    /\ heap = InitSession.heap
    /\ calls = <<>>
    /\ result = [kind |-> "NoCall"]
    /\ trace = InitSession.trace

\* One call of get_acceptable_next_terminals(partial_code). The ParseResult
\* of line 156 holds the live set objects themselves.
get_acceptable_next_terminals(partial_code) ==
    /\ Len(calls) < MaxCalls
    /\ LET s == parsed(Self, partial_code) IN
       /\ cur_ac_terminals' = s.cur_ac_terminals
       /\ next_ac_terminals' = s.next_ac_terminals
       /\ cur_pos' = s.cur_pos
       /\ lexer_pos' = s.lexer_pos
       /\ dedent_queue' = s.dedent_queue
       /\ interactive' = s.interactive
       /\ parser_token_seq' = s.parser_token_seq
       /\ prev_lexer_tokens' = s.prev_lexer_tokens
       /\ cur_pos_to_parser_state' = s.cur_pos_to_parser_state
       /\ heap' = IF _get_remainder(s, partial_code).raised # "" THEN s.heap
                  ELSE [s.heap EXCEPT !.returned =
                           @ \cup ({s.heap.cur_ac_terminals,
                                    s.heap.next_ac_terminals} \ {NoneId})]
       /\ trace' = s.trace
    /\ result' = ParseResult(Self, partial_code)
    /\ calls' = Append(calls, partial_code)

Next == \E partial_code \in Buffers : get_acceptable_next_terminals(partial_code)

Spec == Init /\ [][Next]_vars

-----------------------------------------------------------------------------
(* Vocabulary of the properties.                                           *)

NCalls == Len(calls)

\* The buffer of the last call and of the call before it.
LastCode == calls[NCalls]
PrevCode == calls[NCalls - 1]

\* The token list the lexer emitted for the last call's buffer.
LastTokens == _lex_code(LastCode).lexer_tokens

\* The same call on a session fresh from __init__.
FreshResult(code) == ParseResult(InitSession, code)

\* t extends s by at least one appended character.
Extends(s, t) == Len(s) < Len(t) /\ SubSeq(t, 1, Len(s)) = s

\* The token list s is a prefix of the token list t under token equality.
TokenPrefix(s, t) ==
    /\ Len(s) <= Len(t)
    /\ \A i \in 1..Len(s) : TokenEq(s[i], t[i])

\* The parser state a fresh interactive parser is in after the first n
\* tokens, a rejected token leaving it where it was.
RECURSIVE FedState(_, _)
FedState(tokens, n) ==
    IF n = 0 THEN InitialParserState
    ELSE feed_token(FedState(tokens, n - 1), tokens[n].type).state_stack

\* The last call's feeding stopped on UnexpectedToken; the index it stopped at.
ParseStopped == trace.fed # <<>> /\ ~trace.fed[Len(trace.fed)].ok
StopIndex == trace.fed[Len(trace.fed)].index

\* The token types form a sentence prefix NAME PLUS NAME ... of the grammar.
GrammarPrefix(tokens) ==
    \A i \in 1..Len(tokens) :
        tokens[i].type = (IF i % 2 = 1 THEN "NAME" ELSE "PLUS")

\* The buffer ends exactly at the end of a "+" token.
EndsAtPlus(code) ==
    /\ code # <<>>
    /\ code[Len(code)] = "+"
    /\ _lex_code(code).lexer_pos = Len(code)

-----------------------------------------------------------------------------
(* The properties.                                                         *)

\* C1: prefix reuse equivalence. When the last buffer extends the buffer of
\* the call before it by appended characters, the last call's result equals
\* the result of the same buffer on a fresh session.
C1_PrefixReuseEquivalence ==
    (NCalls >= 2 /\ Extends(PrevCode, LastCode))
        => result = FreshResult(LastCode)

\* C2: advance never fails. Every call returns a ParseResult; none raises.
C2_AdvanceNeverFails ==
    NCalls >= 1 => result.kind = "ParseResult"

\* C3: parse-stop semantics. When the feed of token k is rejected, the
\* returned sets are those valid before token k: next_ac_terminals is the
\* accepts of the state after tokens 0..k-1 (the initial state when k = 0)
\* and cur_ac_terminals the accepts of the state before token k-1.
C3_ParseStopSets ==
    (NCalls >= 1 /\ ParseStopped) =>
        /\ result.kind = "ParseResult"
        /\ result.next_ac_terminals = accepts(FedState(LastTokens, StopIndex))
        /\ StopIndex >= 1 =>
               result.cur_ac_terminals = accepts(FedState(LastTokens, StopIndex - 1))

\* C4: remainder classification. Every call reports exactly one remainder
\* state: INCOMPLETE with the suffix after lexer_pos stripped of leading
\* spaces when lexer_pos < B and that suffix is non-empty, COMPLETE with ""
\* when lexer_pos < B and it is empty, MAYBE_COMPLETE when lexer_pos = B.
C4_RemainderClassification ==
    NCalls >= 1 =>
        LET B == Len(LastCode)
            suffix == lstrip(SubSeq(LastCode, lexer_pos + 1, B))
        IN /\ result.kind = "ParseResult"
           /\ result.remainder_state \in {"COMPLETE", "INCOMPLETE", "MAYBE_COMPLETE"}
           /\ (lexer_pos < B /\ suffix # <<>>) =>
                  /\ result.remainder_state = "INCOMPLETE"
                  /\ result.remainder_string = suffix
           /\ (lexer_pos < B /\ suffix = <<>>) =>
                  /\ result.remainder_state = "COMPLETE"
                  /\ result.remainder_string = <<>>
           /\ lexer_pos = B => result.remainder_state = "MAYBE_COMPLETE"

\* C5: MAYBE_COMPLETE remainder string. When a call returns with the lexer
\* at the end of the buffer, the remainder string is the value of the last
\* token the lexer emitted for this buffer.
C5_RemainderIsLastLexedToken ==
    (NCalls >= 1 /\ result.kind = "ParseResult" /\ lexer_pos = Len(LastCode)
       /\ LastTokens # <<>>)
        => result.remainder_string = LastTokens[Len(LastTokens)].value

\* C6: empty token list. When the lexer emits no token for the buffer, the
\* call returns the accepts of the initial parser state, COMPLETE and "".
C6_EmptyTokenList ==
    (NCalls >= 1 /\ LastTokens = <<>>) =>
        /\ result.kind = "ParseResult"
        /\ result.next_ac_terminals = accepts(InitialParserState)
        /\ result.remainder_state = "COMPLETE"
        /\ result.remainder_string = <<>>

\* C7: ordering guarantee. When the token list of the buffer of the call
\* before is a prefix of the token list of the last buffer, the last call's
\* result equals the result of the same buffer on a fresh session.
C7_OrderingGuarantee ==
    (NCalls >= 2 /\ TokenPrefix(_lex_code(PrevCode).lexer_tokens, LastTokens))
        => result = FreshResult(LastCode)

\* C8: lexer-stop handling. When the lexer stops at an unexpected character
\* before the end of the buffer, the call raises nothing and returns as
\* next_ac_terminals the accepts of the parser state reached after the
\* tokens lexed before that character.
C8_LexerStop ==
    (NCalls >= 1 /\ lexer_pos < Len(LastCode)) =>
        /\ result.kind = "ParseResult"
        /\ result.next_ac_terminals = accepts(FedState(LastTokens, Len(LastTokens)))

\* C9 as claimed: on a fresh session, a buffer that is a sentence prefix
\* ending exactly at the end of a "+" token returns {NAME}, COMPLETE and "".
C9_EndsAtPlusComplete ==
    (NCalls = 1 /\ EndsAtPlus(LastCode) /\ GrammarPrefix(LastTokens)) =>
        /\ result.kind = "ParseResult"
        /\ result.next_ac_terminals = {"NAME"}
        /\ result.remainder_state = "COMPLETE"
        /\ result.remainder_string = <<>>

\* C9 as amended: on a fresh session, a buffer that is a sentence prefix
\* ending exactly at the end of a "+" token returns next_ac_terminals {NAME},
\* remainder_state MAYBE_COMPLETE and remainder_string "+".
C9_EndsAtPlusMaybeComplete ==
    (NCalls = 1 /\ EndsAtPlus(LastCode) /\ GrammarPrefix(LastTokens)) =>
        /\ result.kind = "ParseResult"
        /\ result.next_ac_terminals = {"NAME"}
        /\ result.remainder_state = "MAYBE_COMPLETE"
        /\ result.remainder_string = <<"+">>

\* A fresh session has returned from a call on "a+".
C9_Witness ==
    /\ NCalls = 1
    /\ LastCode = <<"a", "+">>
    /\ EndsAtPlus(LastCode) /\ GrammarPrefix(LastTokens)
    /\ result.kind = "ParseResult"
    /\ result.remainder_state = "MAYBE_COMPLETE"

\* C10: reset when nothing can be reused. When a call restores no snapshot,
\* the feeding loop is entered from the initial state: cur_pos 0, a fresh
\* interactive parser state and an empty dedent queue.
C10_ResetWhenNothingReused ==
    (NCalls >= 1 /\ trace.restored = -1) =>
        trace.loop_entry = [cur_pos |-> 0,
                            interactive |-> InitialParserState,
                            dedent_queue |-> <<>>]

-----------------------------------------------------------------------------
(* Vocabulary of the snapshot properties.                                  *)

\* Feeding the first n tokens to a fresh interactive parser: ok while every
\* feed is accepted, and the parser state reached.
RECURSIVE FreshFeed(_, _)
FreshFeed(tokens, n) ==
    IF n = 0 THEN [ok |-> TRUE, state_stack |-> InitialParserState]
    ELSE LET before == FreshFeed(tokens, n - 1) IN
         IF ~before.ok THEN before
         ELSE feed_token(before.state_stack, tokens[n].type)

\* The length of the longest common prefix of two token lists.
CommonPrefixLen(s, t) ==
    Cardinality({n \in 1..Min(Len(s), Len(t)) :
                    \A i \in 1..n : TokenEq(s[i], t[i])})

\* The stored indices below the common prefix length of two token lists.
Reusable(old_tokens, new_tokens, stored) ==
    {j \in DOMAIN stored : j <= CommonPrefixLen(old_tokens, new_tokens) - 1}

MaxOf(S) == CHOOSE x \in S : \A y \in S : y <= x

\* The stored tuple at index i as a list: empty when there is none.
StoredAt(i) ==
    IF i \in DOMAIN cur_pos_to_parser_state
    THEN <<cur_pos_to_parser_state[i]>> ELSE <<>>

\* The objects held in stored tuples, the live objects, None apart.
SnapshotObjects ==
    UNION {{heap.stored[i].parser_state, heap.stored[i].cur_ac_terminals,
            heap.stored[i].next_ac_terminals, heap.stored[i].dedent_queue}
           : i \in DOMAIN heap.stored} \ {NoneId}
LiveObjects ==
    {heap.interactive, heap.cur_ac_terminals, heap.next_ac_terminals,
     heap.dedent_queue} \ {NoneId}

-----------------------------------------------------------------------------
(* The snapshot properties.                                                *)

\* C11: snapshot purity. After a call with token list tokens, every stored
\* index i < len(tokens) holds the parser state and next_ac_terminals that
\* feeding tokens[0..i] to a fresh interactive parser produces.
C11_SnapshotPurity ==
    NCalls >= 1 =>
        \A i \in DOMAIN cur_pos_to_parser_state :
            i < Len(prev_lexer_tokens) =>
                LET f == FreshFeed(prev_lexer_tokens, i + 1) IN
                /\ f.ok
                /\ cur_pos_to_parser_state[i].parser_state = f.state_stack
                /\ cur_pos_to_parser_state[i].next_ac_terminals = accepts(f.state_stack)

\* C12: cursor/snapshot invariant. Between calls every index below cur_pos
\* has a stored tuple.
C12_SnapshotBelowCursor ==
    \A i \in 0..(cur_pos - 1) : i \in DOMAIN cur_pos_to_parser_state

\* C13: nearest-snapshot restore and incremental feeding. A call whose new
\* token list shares with the previous one a prefix holding a stored index
\* restores the largest such index j, enters the feeding loop with cur_pos
\* j + 1 and the stored parser state, and feeds the tokens j+1, j+2, ... only.
C13_NearestSnapshotRestore ==
    [][LET J == Reusable(prev_lexer_tokens, prev_lexer_tokens',
                         cur_pos_to_parser_state)
       IN J # {} =>
            /\ trace'.restored = MaxOf(J)
            /\ trace'.loop_entry.cur_pos = MaxOf(J) + 1
            /\ trace'.loop_entry.interactive =
                   cur_pos_to_parser_state[MaxOf(J)].parser_state
            /\ \A k \in 1..Len(trace'.fed) : trace'.fed[k].index = MaxOf(J) + k]_vars

\* A second call restored a snapshot and fed the token after it.
C13_Witness ==
    /\ NCalls = 2
    /\ trace.restored >= 0
    /\ trace.fed # <<>>
    /\ trace.fed[1].index = trace.restored + 1
    /\ cur_pos > trace.restored + 1

\* C14: write-through snapshots. Each accepted feed of token i stored at i a
\* tuple whose cur_ac_terminals is the live next_ac_terminals from before the
\* feed and whose next_ac_terminals is accepts() of the state after it, and
\* made the live sets those two values; a rejected feed left the tuple at its
\* index and both live sets as they were.
C14_WriteThrough ==
    \A k \in 1..Len(trace.fed) :
        LET f == trace.fed[k]
            new_cur == f.next_before
            new_next == accepts(f.state_after)
        IN IF f.ok
           THEN /\ f.index \in DOMAIN cur_pos_to_parser_state
                /\ cur_pos_to_parser_state[f.index].cur_ac_terminals = new_cur
                /\ cur_pos_to_parser_state[f.index].next_ac_terminals = new_next
                /\ IF k < Len(trace.fed)
                   THEN /\ trace.fed[k + 1].cur_before = new_cur
                        /\ trace.fed[k + 1].next_before = new_next
                   ELSE /\ cur_ac_terminals = new_cur
                        /\ next_ac_terminals = new_next
           ELSE /\ StoredAt(f.index) = f.entry_before
                /\ cur_ac_terminals = f.cur_before
                /\ next_ac_terminals = f.next_before

\* A call fed a token successfully when the live next_ac_terminals was a set.
C14_Witness ==
    /\ trace.fed # <<>>
    /\ trace.fed[1].ok
    /\ trace.fed[1].next_before # None
    /\ cur_pos_to_parser_state[trace.fed[1].index].cur_ac_terminals
           = trace.fed[1].next_before

\* C15: snapshot independence. No object held in a stored tuple is a live
\* session field or a set handed out in a returned ParseResult.
C15_SnapshotIndependence ==
    SnapshotObjects \cap (LiveObjects \cup heap.returned) = {}

C17_AcceptsOncePerFeed ==
    /\ trace.accepts_calls
           = Cardinality({k \in 1..Len(trace.fed) : trace.fed[k].ok})
    /\ trace.restored # -1 =>
           LET entry == cur_pos_to_parser_state[trace.restored] IN
           IF trace.fed = <<>>
           THEN /\ cur_ac_terminals = entry.cur_ac_terminals
                /\ next_ac_terminals = entry.next_ac_terminals
           ELSE /\ trace.fed[1].cur_before = entry.cur_ac_terminals
                /\ trace.fed[1].next_before = entry.next_ac_terminals

\* A second call restored a snapshot, fed one token and called _accepts once.
C17_Witness ==
    /\ NCalls = 2
    /\ trace.restored # -1
    /\ Len(trace.fed) = 1
    /\ trace.fed[1].ok
    /\ trace.accepts_calls = 1

\* C18: cursor bound. After every call 0 <= cur_pos <= len(prev_lexer_tokens).
C18_CursorBound ==
    0 <= cur_pos /\ cur_pos <= Len(prev_lexer_tokens)

\* C19: backtracking equivalence. When the last buffer, holding at least one
\* token, is a proper prefix of the buffer of the call before it, the last
\* call's result equals the result of the same buffer on a fresh session.
C19_BacktrackingEquivalence ==
    (NCalls >= 2 /\ Extends(LastCode, PrevCode) /\ LastTokens # <<>>)
        => result = FreshResult(LastCode)

====
